---- MODULE Spec2Model ----
(***************************************************************************)
(* A model of scripts/organize_downloads.py: the classification of a file  *)
(* name into a destination folder (get_target_folder) and the single pass  *)
(* over the downloads directory that moves every regular file into its     *)
(* folder (organize_downloads).                                            *)
(*                                                                         *)
(* File names, keywords, extensions and folder labels are strings; the     *)
(* string functions of the code (lower, "in", suffix, strip) are computed  *)
(* character by character.  The file system is the content of the          *)
(* downloads directory: a function from the names present to entries, an   *)
(* entry being a regular file (with a content mark) or a directory (with   *)
(* its own entries).                                                       *)
(***************************************************************************)
EXTENDS Integers, Sequences, FiniteSets, TLC

VARIABLES
    srcState,       \* can DOWNLOADS_DIR be listed: "ok", "missing", "notdir", "unreadable"
    fs,             \* the entries of DOWNLOADS_DIR: name -> entry
    fs0,            \* fs as it was before the run (never changed)
    pc,             \* per run: where organize_downloads stands
    pending,        \* per run: names iterdir() listed and has not yielded yet
    file,           \* per run: name of the loop variable `file`
    target_folder,  \* per run: the local target_folder (a path)
    out,            \* per run: the lines printed so far
    exc,            \* per run: the uncaught exception that ended the run, and the call that raised it
    ret,            \* per run: what organize_downloads returned, "unset" before it returns
    cfile,          \* classification alone: the file name given to get_target_folder
    cret,           \* classification alone: what get_target_folder returned
    mpc,            \* script generator: where main (and what it calls) stands
    tpc,            \* script generator: where the thread running _record_audio stands
    recording,      \* script generator: AudioRecorder.recording
    frames,         \* script generator: the number of chunks in AudioRecorder.frames
    stream,         \* script generator: the audio stream, "none", "open", "stopped" or "closed"
    wav,            \* script generator: the temporary .wav file and the chunks written to it
    audio_file,     \* script generator: main's audio_file, "unset" before start_recording returns
    user_request,   \* script generator: main's user_request, "unset" before transcribe_audio returns
    caught,         \* script generator: the exception main's `except Exception` caught, or "none"
    answers,        \* script generator: what the user typed at the prompts of ask_user_to_run
    runs            \* script generator: the times ask_user_to_run started the generated script

genVars == <<mpc, tpc, recording, frames, stream, wav, audio_file, user_request, caught,
             answers, runs>>

vars == <<srcState, fs, fs0, pc, pending, file, target_folder, out, exc, ret, cfile, cret,
          genVars>>

runVars == <<srcState, fs, fs0, pc, pending, file, target_folder, out, exc, ret>>

-----------------------------------------------------------------------------
(* Bounds of the model. *)

MaxFiles == 2       \* regular files initially in the downloads directory
MaxDirs == 1        \* subdirectories initially in the downloads directory
MaxParts == 3       \* parts a classified file name is put together from
MaxConcFiles == 1   \* regular files in the downloads directory two runs share
MaxFrames == 2      \* chunks the recording thread appends to frames
MaxPrompts == 3     \* answers the user types at the prompt of ask_user_to_run

-----------------------------------------------------------------------------
(* Strings, as Python computes on them. *)

UpperChars == "ABCDEFGHIJKLMNOPQRSTUVWXYZ"
LowerChars == "abcdefghijklmnopqrstuvwxyz"

Char(s, i) == SubSeq(s, i, i)

\* str.lower() on the upper-case letters
LowerOf ==
    [c \in {Char(UpperChars, i) : i \in 1..Len(UpperChars)} |->
        Char(LowerChars, CHOOSE i \in 1..Len(UpperChars) : Char(UpperChars, i) = c)]

\* one character of str.lower()
LowerChar(c) == IF c \in DOMAIN LowerOf THEN LowerOf[c] ELSE c

RECURSIVE lower(_)
lower(s) ==
    IF Len(s) = 0 THEN ""
    ELSE LowerChar(Char(s, 1)) \o lower(SubSeq(s, 2, Len(s)))

\* Python's `k in s` on strings
Contains(k, s) ==
    \E i \in 1..(Len(s) - Len(k) + 1) : SubSeq(s, i, i + Len(k) - 1) = k

\* str.rfind(c) for a single character, as a 1-based position; 0 when absent
rfind(s, c) ==
    LET hits == {i \in 1..Len(s) : Char(s, i) = c}
    IN  IF hits = {} THEN 0 ELSE CHOOSE i \in hits : \A j \in hits : j <= i

\* str.strip(c) for a single character
RECURSIVE lstrip(_, _)
lstrip(s, c) ==
    IF Len(s) > 0 /\ Char(s, 1) = c THEN lstrip(SubSeq(s, 2, Len(s)), c) ELSE s

RECURSIVE rstrip(_, _)
rstrip(s, c) ==
    IF Len(s) > 0 /\ Char(s, Len(s)) = c THEN rstrip(SubSeq(s, 1, Len(s) - 1), c) ELSE s

strip(s, c) == rstrip(lstrip(s, c), c)

-----------------------------------------------------------------------------
(* Paths: a path is the sequence of its components below (and including)   *)
(* the downloads directory.                                                *)

DOWNLOADS_DIR == "~/Downloads"

Join(path, name) == Append(path, name)

\* Path.name
PathName(path) == path[Len(path)]

\* (a variant of suffix that cuts at the first dot instead of the last)
suffix_firstdot(path) ==
    LET name == PathName(path)
        dots == {i \in 1..Len(name) : Char(name, i) = "."}
        i == IF dots = {} THEN 0 ELSE CHOOSE d \in dots : \A e \in dots : d <= e
    IN  IF 1 < i /\ i < Len(name) THEN SubSeq(name, i, Len(name)) ELSE ""

\* PurePath.suffix: the name from its last dot on, when that dot is neither
\* the first nor the last character of the name
suffix(path) ==
    LET name == PathName(path)
        i == rfind(name, ".")
    IN  IF 1 < i /\ i < Len(name) THEN SubSeq(name, i, Len(name)) ELSE ""

-----------------------------------------------------------------------------
(* The two rule tables. *)

CATEGORY_MAP ==
    [e \in {"pdf", "pptx", "mp4", "m4a", "png", "jpg", "jpeg", "webp", "heic",
            "dmg", "zip", "rar", "csv", "xlsx", "json", "srt", "ics", "ipynb",
            "tsx", "html", "txt"} |->
        CASE e = "pdf" -> "PDFs"
          [] e = "pptx" -> "Presentations"
          [] e = "mp4" -> "Videos"
          [] e = "m4a" -> "Audio"
          [] e \in {"png", "jpg", "jpeg", "webp", "heic"} -> "Images"
          [] e = "dmg" -> "Installers"
          [] e \in {"zip", "rar"} -> "Archives"
          [] e \in {"csv", "xlsx", "json"} -> "Data"
          [] e = "srt" -> "Subtitles"
          [] e = "ics" -> "Calendars"
          [] e = "ipynb" -> "Notebooks"
          [] e = "tsx" -> "Code"
          [] e = "html" -> "Web"
          [] e = "txt" -> "Text"]

\* a dict keeps its keys in the order they were written
KEYWORD_FOLDERS ==
    << [keyword |-> "invoice", folder |-> "Invoices"],
       [keyword |-> "receipt", folder |-> "Invoices"],
       [keyword |-> "fatura", folder |-> "Invoices"],
       [keyword |-> "anki", folder |-> "Anki"],
       [keyword |-> "course", folder |-> "Courses"],
       [keyword |-> "blueprint", folder |-> "Courses"],
       [keyword |-> "ai", folder |-> "AI"],
       [keyword |-> "langgraph", folder |-> "AI"],
       [keyword |-> "agent", folder |-> "AI"],
       [keyword |-> "prompt", folder |-> "AI"],
       [keyword |-> "filmmaking", folder |-> "Media Projects"],
       [keyword |-> "presentation", folder |-> "Presentations"] >>

-----------------------------------------------------------------------------
(* get_target_folder.  The result records the path returned and the return *)
(* statement that produced it: "keyword" (the return inside the loop over  *)
(* KEYWORD_FOLDERS), "extension" (after the lookup in CATEGORY_MAP) or     *)
(* "fallback".                                                             *)

\* the rules whose keyword occurs in the lower-cased name, by position in the table
KeywordHits(lower_name) ==
    {i \in 1..Len(KEYWORD_FOLDERS) : Contains(KEYWORD_FOLDERS[i].keyword, lower_name)}

\* (a variant of first_keyword_hit in which the last matching rule wins)
first_keyword_hit_last(lower_name) ==
    LET hits == KeywordHits(lower_name)
    IN  IF hits = {} THEN 0 ELSE CHOOSE i \in hits : \A j \in hits : j <= i

\* the loop `for keyword, folder in KEYWORD_FOLDERS.items()` returns at the
\* first rule, in table order, whose keyword occurs in the name; 0: no rule
first_keyword_hit(lower_name) ==
    LET hits == KeywordHits(lower_name)
    IN  IF hits = {} THEN 0 ELSE CHOOSE i \in hits : \A j \in hits : i <= j

\* (a variant of fallback_folder that leaves the label out)
fallback_folder_root == <<DOWNLOADS_DIR>>

fallback_folder == Join(<<DOWNLOADS_DIR>>, "Misc")

\* (a variant of get_target_folder that looks at the extension first)
get_target_folder_run_ext_first(path) ==
    LET lower_name == lower(PathName(path))
        hit == first_keyword_hit(lower_name)
        ext == strip(lower(suffix(path)), ".")
    IN  IF ext \in DOMAIN CATEGORY_MAP
        THEN [ret |-> Join(<<DOWNLOADS_DIR>>, CATEGORY_MAP[ext]), via |-> "extension"]
        ELSE IF hit # 0
        THEN [ret |-> Join(<<DOWNLOADS_DIR>>, KEYWORD_FOLDERS[hit].folder), via |-> "keyword"]
        ELSE [ret |-> fallback_folder, via |-> "fallback"]

get_target_folder_run(path) ==
    LET lower_name == lower(PathName(path))
        hit == first_keyword_hit(lower_name)
        ext == strip(lower(suffix(path)), ".")
    IN  IF hit # 0
        THEN [ret |-> Join(<<DOWNLOADS_DIR>>, KEYWORD_FOLDERS[hit].folder), via |-> "keyword"]
        ELSE IF ext \in DOMAIN CATEGORY_MAP
        THEN [ret |-> Join(<<DOWNLOADS_DIR>>, CATEGORY_MAP[ext]), via |-> "extension"]
        ELSE [ret |-> fallback_folder, via |-> "fallback"]

get_target_folder(path) == get_target_folder_run(path).ret

-----------------------------------------------------------------------------
(* Classification alone: get_target_folder applied to file names put       *)
(* together from a few parts.                                              *)

NoResult == [ret |-> <<>>, via |-> "none"]

NameParts == {"Invoice", "course", "ai", "notes", "photo", ".",
              ".pdf", ".PDF", ".pptx", ".xyz"}

RECURSIVE Concat(_)
Concat(parts) == IF parts = <<>> THEN "" ELSE Head(parts) \o Concat(Tail(parts))

\* the names a directory entry can have: not empty, not "." or ".."
NameInputs ==
    {Concat(ps) : ps \in UNION {[1..n -> NameParts] : n \in 1..MaxParts}}
        \ {".", ".."}

Runs == {"r1", "r2"}

EmptyDir == [n \in {} |-> 0]

NoException == [type |-> "none", at |-> "none"]

NoWav == [state |-> "none", chunks |-> 0]

\* the script generator before main is called
GenIdle ==
    /\ mpc = "start"
    /\ tpc = "none"
    /\ recording = FALSE
    /\ frames = 0
    /\ stream = "none"
    /\ wav = NoWav
    /\ audio_file = "unset"
    /\ user_request = "unset"
    /\ caught = "none"
    /\ answers = <<>>
    /\ runs = 0

ClassifyInit ==
    /\ cfile \in NameInputs
    /\ cret = NoResult
    /\ srcState = "ok"
    /\ fs = EmptyDir
    /\ fs0 = EmptyDir
    /\ pc = [r \in Runs |-> "start"]
    /\ pending = [r \in Runs |-> {}]
    /\ file = [r \in Runs |-> ""]
    /\ target_folder = [r \in Runs |-> <<>>]
    /\ out = [r \in Runs |-> <<>>]
    /\ exc = [r \in Runs |-> NoException]
    /\ ret = [r \in Runs |-> "unset"]
    /\ GenIdle

Classify ==
    /\ cret = NoResult
    /\ cret' = get_target_folder_run(Join(<<DOWNLOADS_DIR>>, cfile))
    /\ UNCHANGED <<cfile, runVars, genVars>>

ClassifyNext == Classify

ClassifySpec == ClassifyInit /\ [][ClassifyNext]_vars

-----------------------------------------------------------------------------
(* The file system below DOWNLOADS_DIR.  An entry is a regular file, a     *)
(* directory or a symbolic link to a directory; a file carries a mark of   *)
(* its content, a directory its own entries.                               *)

FileEntry(data) == [kind |-> "file", data |-> data, children |-> EmptyDir]

DirEntry(kind, children) == [kind |-> kind, data |-> "", children |-> children]

\* f with key k set to v, k new or not
Put(f, k, v) == [x \in DOMAIN f \cup {k} |-> IF x = k THEN v ELSE f[x]]

\* f without key k
Drop(f, k) == [x \in DOMAIN f \ {k} |-> f[x]]

\* the entry a path below DOWNLOADS_DIR leads to in the file system d, following
\* links to directories; "absent" when there is none
RECURSIVE Lookup(_, _)
Lookup(d, rel) ==
    IF rel = <<>> THEN DirEntry("dir", d)
    ELSE IF Head(rel) \notin DOMAIN d THEN [kind |-> "absent"]
    ELSE IF Len(rel) = 1 THEN d[Head(rel)]
    ELSE IF d[Head(rel)].kind \in {"dir", "linkdir"}
         THEN Lookup(d[Head(rel)].children, Tail(rel))
         ELSE [kind |-> "absent"]

\* the file system d with entry e at the path rel, whose parent is a directory
RECURSIVE Store(_, _, _)
Store(d, rel, e) ==
    IF Len(rel) = 1 THEN Put(d, Head(rel), e)
    ELSE Put(d, Head(rel),
             [d[Head(rel)] EXCEPT !.children = Store(@, Tail(rel), e)])

\* a path without its first component, DOWNLOADS_DIR
Rel(path) == Tail(path)

Stat(path) == Lookup(fs, Rel(path))

\* (a variant of is_file that is true of whatever exists)
is_file_any(path) == Stat(path).kind # "absent"

\* Path.is_file(): a regular file; false for what is absent
is_file(path) == Stat(path).kind = "file"

\* Path.is_dir(): a directory or a link to one
is_dir(path) == Stat(path).kind \in {"dir", "linkdir"}

\* (a variant of exists that never finds anything)
exists_never(path) == FALSE

\* Path.exists()
exists(path) == Stat(path).kind # "absent"

\* (a variant of listdir that swallows the error and lists what it can)
listdir_ignore_errors == [err |-> "none", names |-> DOMAIN fs]

\* os.listdir(DOWNLOADS_DIR), which the first step of iterdir() calls: all the
\* names at once, or the error of a directory that cannot be listed
listdir ==
    CASE srcState = "ok" -> [err |-> "none", names |-> DOMAIN fs]
      [] srcState = "missing" -> [err |-> "FileNotFoundError", names |-> {}]
      [] srcState = "notdir" -> [err |-> "NotADirectoryError", names |-> {}]
      [] srcState = "unreadable" -> [err |-> "PermissionError", names |-> {}]

\* what the operating system may answer to the creation of a directory that
\* is not there yet
MkdirAnswers == {"ok", "PermissionError"}

\* (a variant of mkdir without exist_ok: an existing directory is an error too)
mkdir_no_exist_ok(path, answer) ==
    IF exists(path)
    THEN [fs |-> fs, err |-> "FileExistsError"]
    ELSE IF answer = "ok"
         THEN [fs |-> Store(fs, Rel(path), DirEntry("dir", EmptyDir)), err |-> "none"]
         ELSE [fs |-> fs, err |-> answer]

\* Path.mkdir(exist_ok=True) of a path right below DOWNLOADS_DIR: nothing to
\* do for a directory that is there; FileExistsError for anything else that
\* is there; else the directory is created, unless the system refuses
mkdir(path, answer) ==
    IF exists(path)
    THEN IF is_dir(path) THEN [fs |-> fs, err |-> "none"]
         ELSE [fs |-> fs, err |-> "FileExistsError"]
    ELSE IF answer = "ok"
         THEN [fs |-> Store(fs, Rel(path), DirEntry("dir", EmptyDir)), err |-> "none"]
         ELSE [fs |-> fs, err |-> answer]

\* how a move can end: the file is moved (by rename, or by copy and unlink);
\* rename and the copy both fail; rename fails and the copy breaks off part
\* way; rename fails, the copy is made and the source cannot be unlinked
MoveAnswers == {"ok", "fail_clean", "fail_partial", "fail_unlink"}

\* shutil.move(src, dst) for src a path right below DOWNLOADS_DIR
shutil_move(src, dst, answer) ==
    LET real_dst == IF is_dir(dst) THEN Join(dst, PathName(src)) ELSE dst
        parent == SubSeq(real_dst, 1, Len(real_dst) - 1)
    IN  IF is_dir(dst) /\ exists(real_dst)
        THEN [fs |-> fs, err |-> "Error: Destination path already exists"]
        ELSE IF ~exists(src) \/ ~is_dir(parent)
        THEN [fs |-> fs, err |-> "FileNotFoundError"]
        ELSE CASE answer = "ok" ->
                    [fs |-> Store(Drop(fs, PathName(src)), Rel(real_dst), Stat(src)),
                     err |-> "none"]
               [] answer = "fail_clean" ->
                    [fs |-> fs, err |-> "PermissionError"]
               [] answer = "fail_partial" ->
                    [fs |-> Store(fs, Rel(real_dst), FileEntry("partial")),
                     err |-> "OSError: No space left on device"]
               [] answer = "fail_unlink" ->
                    [fs |-> Store(fs, Rel(real_dst), Stat(src)),
                     err |-> "PermissionError"]

-----------------------------------------------------------------------------
(* organize_downloads, one file-system call at a step. *)

Line(kind, name, path, detail) ==
    [kind |-> kind, name |-> name, path |-> path, detail |-> detail]

FilePath(r) == Join(<<DOWNLOADS_DIR>>, file[r])

\* target_path = target_folder / file.name
TargetPath(r) == Join(target_folder[r], file[r])

\* the print of the header, and the first step of `for file in
\* DOWNLOADS_DIR.iterdir()`, which lists the directory
Start(r) ==
    /\ pc[r] = "start"
    /\ out' = [out EXCEPT ![r] = Append(@, Line("organizing", "", <<DOWNLOADS_DIR>>, ""))]
    /\ IF listdir.err = "none"
       THEN /\ pending' = [pending EXCEPT ![r] = listdir.names]
            /\ pc' = [pc EXCEPT ![r] = "loop"]
            /\ exc' = exc
       ELSE /\ pending' = pending
            /\ pc' = [pc EXCEPT ![r] = "crashed"]
            /\ exc' = [exc EXCEPT ![r] = [type |-> listdir.err, at |-> "iterdir"]]
    /\ UNCHANGED <<srcState, fs, fs0, file, target_folder, cfile, cret, ret, genVars>>

\* the loop takes the next name, in an order the platform chooses, and skips
\* it unless it is a regular file
IterNext(r) ==
    /\ pc[r] = "loop"
    /\ \E n \in pending[r] :
        /\ pending' = [pending EXCEPT ![r] = @ \ {n}]
        /\ file' = [file EXCEPT ![r] = n]
        /\ pc' = [pc EXCEPT ![r] =
                    IF is_file(Join(<<DOWNLOADS_DIR>>, n)) THEN "mkdir" ELSE "loop"]
    /\ UNCHANGED <<srcState, fs, fs0, target_folder, out, exc, cfile, cret, ret, genVars>>

\* the listing is exhausted: the function ends without a return statement
Finish(r) ==
    /\ pc[r] = "loop"
    /\ pending[r] = {}
    /\ pc' = [pc EXCEPT ![r] = "done"]
    /\ ret' = [ret EXCEPT ![r] = "None"]
    /\ UNCHANGED <<srcState, fs, fs0, pending, file, target_folder, out, exc, cfile, cret,
                   genVars>>

\* target_folder = get_target_folder(file); target_folder.mkdir(exist_ok=True),
\* outside any try: what it raises ends the run
Mkdir(r) ==
    /\ pc[r] = "mkdir"
    /\ LET tf == get_target_folder(FilePath(r))
       IN  /\ target_folder' = [target_folder EXCEPT ![r] = tf]
           /\ \E answer \in MkdirAnswers :
                LET res == mkdir(tf, answer)
                IN  /\ fs' = res.fs
                    /\ IF res.err = "none"
                       THEN /\ pc' = [pc EXCEPT ![r] = "exists"]
                            /\ exc' = exc
                       ELSE /\ pc' = [pc EXCEPT ![r] = "crashed"]
                            /\ exc' = [exc EXCEPT ![r] = [type |-> res.err, at |-> "mkdir"]]
    /\ UNCHANGED <<srcState, fs0, pending, file, out, cfile, cret, ret, genVars>>

\* if target_path.exists(): print "File already exists", continue
Exists(r) ==
    /\ pc[r] = "exists"
    /\ IF exists(TargetPath(r))
       THEN /\ out' = [out EXCEPT ![r] =
                          Append(@, Line("exists", file[r], TargetPath(r), ""))]
            /\ pc' = [pc EXCEPT ![r] = "loop"]
       ELSE /\ out' = out
            /\ pc' = [pc EXCEPT ![r] = "move"]
    /\ UNCHANGED <<srcState, fs, fs0, pending, file, target_folder, exc, cfile, cret, ret, genVars>>

\* (a variant of Move whose except branch prints nothing)
Move_silent_except(r) ==
    /\ pc[r] = "move"
    /\ \E answer \in MoveAnswers :
        LET res == shutil_move(FilePath(r), TargetPath(r), answer)
        IN  /\ fs' = res.fs
            /\ out' = [out EXCEPT ![r] =
                          IF res.err = "none"
                          THEN Append(@, Line("moved", file[r], target_folder[r], ""))
                          ELSE @]
    /\ pc' = [pc EXCEPT ![r] = "loop"]
    /\ UNCHANGED <<srcState, fs0, pending, file, target_folder, exc, cfile, cret, ret, genVars>>

\* try: shutil.move(...); print "Moved"; except Exception as e: print "Error moving"
Move(r) ==
    /\ pc[r] = "move"
    /\ \E answer \in MoveAnswers :
        LET res == shutil_move(FilePath(r), TargetPath(r), answer)
        IN  /\ fs' = res.fs
            /\ out' = [out EXCEPT ![r] =
                          Append(@, IF res.err = "none"
                                    THEN Line("moved", file[r], target_folder[r], "")
                                    ELSE Line("error", file[r], <<>>, res.err))]
    /\ pc' = [pc EXCEPT ![r] = "loop"]
    /\ UNCHANGED <<srcState, fs0, pending, file, target_folder, exc, cfile, cret, ret, genVars>>

Step(r) ==
    \/ Start(r)
    \/ IterNext(r)
    \/ Finish(r)
    \/ Mkdir(r)
    \/ Exists(r)
    \/ Move(r)

-----------------------------------------------------------------------------
(* One run on a downloads directory that holds up to MaxFiles regular      *)
(* files and up to MaxDirs subdirectories left by earlier runs or by the   *)
(* user.                                                                   *)

FileNames == {"invoice_march.pdf", "photo.png", "notes.xyz", "plan.pdf", "report.pdf",
              "Misc"}

\* subdirectories that may be there: a destination folder that already holds
\* a file of the same name as one to be moved; a destination folder that is a
\* link to a directory and holds a directory of that name; a folder that is
\* no destination, with a file in it
DirPool ==
    [n \in {"Invoices", "Images", "Old"} |->
        CASE n = "Invoices" ->
                DirEntry("dir", Put(EmptyDir, "invoice_march.pdf", FileEntry("old")))
          [] n = "Images" ->
                DirEntry("linkdir", Put(EmptyDir, "photo.png", DirEntry("dir", EmptyDir)))
          [] n = "Old" ->
                DirEntry("dir", Put(EmptyDir, "plan.pdf", FileEntry("old")))]

InitialFileSystems ==
    {[n \in F \cup D |-> IF n \in D THEN DirPool[n] ELSE FileEntry("new")] :
        F \in {S \in SUBSET FileNames : Cardinality(S) <= MaxFiles},
        D \in {S \in SUBSET DOMAIN DirPool : Cardinality(S) <= MaxDirs}}

Init ==
    /\ srcState \in {"ok", "missing", "notdir", "unreadable"}
    /\ fs \in InitialFileSystems
    /\ srcState \in {"missing", "notdir"} => fs = EmptyDir
    /\ fs0 = fs
    /\ pc = [r \in Runs |-> "start"]
    /\ pending = [r \in Runs |-> {}]
    /\ file = [r \in Runs |-> ""]
    /\ target_folder = [r \in Runs |-> <<>>]
    /\ out = [r \in Runs |-> <<>>]
    /\ exc = [r \in Runs |-> NoException]
    /\ ret = [r \in Runs |-> "unset"]
    /\ cfile = ""
    /\ cret = NoResult
    /\ GenIdle

Next == Step("r1")

Spec == Init /\ [][Next]_vars

-----------------------------------------------------------------------------
(* One run on the directory of the end-to-end scenario: invoice_march.pdf, *)
(* photo.png, notes.xyz and plan.pdf, with Invoices/invoice_march.pdf      *)
(* there already.                                                          *)

ScenarioFiles == {"invoice_march.pdf", "photo.png", "notes.xyz", "plan.pdf"}

ScenarioFileSystem ==
    [n \in ScenarioFiles \cup {"Invoices"} |->
        IF n = "Invoices" THEN DirPool["Invoices"] ELSE FileEntry("new")]

ScenarioInit ==
    /\ srcState = "ok"
    /\ fs = ScenarioFileSystem
    /\ fs0 = fs
    /\ pc = [r \in Runs |-> "start"]
    /\ pending = [r \in Runs |-> {}]
    /\ file = [r \in Runs |-> ""]
    /\ target_folder = [r \in Runs |-> <<>>]
    /\ out = [r \in Runs |-> <<>>]
    /\ exc = [r \in Runs |-> NoException]
    /\ ret = [r \in Runs |-> "unset"]
    /\ cfile = ""
    /\ cret = NoResult
    /\ GenIdle

ScenarioSpec == ScenarioInit /\ [][Next]_vars

-----------------------------------------------------------------------------
(* Two runs of the script at the same time on one downloads directory that *)
(* holds up to MaxConcFiles regular files: the steps of the two runs       *)
(* interleave at the file-system calls.                                    *)

ConcFileNames == {"invoice_march.pdf", "notes.xyz", "Misc"}

ConcInit ==
    /\ srcState = "ok"
    /\ fs \in {[n \in F |-> FileEntry("new")] :
                  F \in {S \in SUBSET ConcFileNames : Cardinality(S) <= MaxConcFiles}}
    /\ fs0 = fs
    /\ pc = [r \in Runs |-> "start"]
    /\ pending = [r \in Runs |-> {}]
    /\ file = [r \in Runs |-> ""]
    /\ target_folder = [r \in Runs |-> <<>>]
    /\ out = [r \in Runs |-> <<>>]
    /\ exc = [r \in Runs |-> NoException]
    /\ ret = [r \in Runs |-> "unset"]
    /\ cfile = ""
    /\ cret = NoResult
    /\ GenIdle

ConcNext == \E r \in Runs : Step(r)

ConcSpec == ConcInit /\ [][ConcNext]_vars

-----------------------------------------------------------------------------
(* Claims about one run of organize_downloads. *)

\* the target path get_target_folder gives the file named n
TargetTable ==
    [n \in FileNames \cup ScenarioFiles \cup ConcFileNames |->
        Join(get_target_folder(Join(<<DOWNLOADS_DIR>>, n)), n)]

TargetOf(n) ==
    IF n \in DOMAIN TargetTable
    THEN TargetTable[n]
    ELSE Join(get_target_folder(Join(<<DOWNLOADS_DIR>>, n)), n)

\* run r has gone through the file named n: the loop took it and has left
\* the body for it
Processed(r, n) ==
    /\ pc[r] \in {"loop", "mkdir", "exists", "move", "done"}
    /\ n \notin pending[r]
    /\ ~(file[r] = n /\ pc[r] \in {"mkdir", "exists", "move"})

HasLine(r, line) == \E i \in 1..Len(out[r]) : out[r][i] = line

(* C1: a regular file whose target path (destination folder / file name)   *)
(* is taken when the file is processed is not moved: what is at the target *)
(* path stays as it was, the file stays at its own path, and once the run  *)
(* has gone through the file a "File already exists" line names the target *)
(* path.  (In one run nothing else writes the target path, so it is taken  *)
(* when the file is processed exactly if it was before the run.)           *)
C1_NoOverwrite ==
    \A n \in DOMAIN fs0 :
        fs0[n].kind = "file" =>
            LET target_path == TargetOf(n)
                before == Lookup(fs0, Rel(target_path))
            IN  before.kind # "absent" =>
                    /\ Lookup(fs, Rel(target_path)) = before
                    /\ n \in DOMAIN fs /\ fs[n] = fs0[n]
                    /\ \A r \in Runs :
                          /\ \A i \in 1..Len(out[r]) :
                                out[r][i].name = n => out[r][i].kind = "exists"
                          /\ Processed(r, n) =>
                                HasLine(r, Line("exists", n, target_path, ""))

\* the run is over, Invoices/invoice_march.pdf was there before it, and the
\* conflict was printed
C1_Witness ==
    /\ pc["r1"] = "done"
    /\ "invoice_march.pdf" \in DOMAIN fs0
    /\ Lookup(fs0, <<"Invoices", "invoice_march.pdf">>).kind = "file"
    /\ HasLine("r1", Line("exists", "invoice_march.pdf",
                          <<DOWNLOADS_DIR, "Invoices", "invoice_march.pdf">>, ""))

(* C6: when the move of a file fails the failure is printed for that file, *)
(* and no failure at any step taken for one file stops the batch: a run    *)
(* that could list the directory ends only with the listing exhausted, and *)
(* then every regular file listed has its line (moved, exists or error).   *)
C6_NoFailureStopsBatch ==
    \A r \in Runs :
        /\ pc[r] = "crashed" => exc[r].at = "iterdir"
        /\ pc[r] = "done" =>
              \A n \in DOMAIN fs0 :
                  fs0[n].kind = "file" =>
                      \E i \in 1..Len(out[r]) :
                          /\ out[r][i].name = n
                          /\ out[r][i].kind \in {"moved", "exists", "error"}

(* C7: when the creation of the destination directory fails for a file,    *)
(* the failure is printed for that file with its cause and the run goes on *)
(* with the next file.                                                     *)
C7_MkdirFailureReported ==
    \A r \in Runs :
        exc[r].at = "mkdir" =>
            /\ pc[r] # "crashed"
            /\ HasLine(r, Line("error", file[r], <<>>, exc[r].type))

(* C8: after a failed move (an "Error moving" line for the file) the file  *)
(* is still at its own path, as it was, and nothing is at its target path. *)
C8_FailedMoveLeavesNoPartialState ==
    \A r \in Runs : \A i \in 1..Len(out[r]) :
        out[r][i].kind = "error" =>
            LET n == out[r][i].name
            IN  /\ n \in DOMAIN fs /\ fs[n] = fs0[n]
                /\ ~exists(TargetOf(n))

(* C9: when DOWNLOADS_DIR cannot be listed (missing, not a directory,      *)
(* unreadable) the run ends at once with the error of the listing: after   *)
(* the header nothing is printed, no directory is created and no file is   *)
(* moved.                                                                  *)
C9_ListingFailureAborts ==
    srcState # "ok" =>
        /\ fs = fs0
        /\ \A r \in Runs :
              /\ pc[r] \in {"start", "crashed"}
              /\ pc[r] = "crashed" =>
                    /\ exc[r].at = "iterdir"
                    /\ exc[r].type \in {"FileNotFoundError", "NotADirectoryError",
                                        "PermissionError"}
                    /\ Len(out[r]) = 1

\* an unreadable directory with a regular file in it, and the run has ended
C9_Witness ==
    /\ srcState = "unreadable"
    /\ pc["r1"] = "crashed"
    /\ \E n \in DOMAIN fs : fs[n].kind = "file"

(* C10: no step moves, renames or removes an immediate child of            *)
(* DOWNLOADS_DIR that is not a regular file, be it there from the start or *)
(* created earlier in the run, nor anything nested in it: such a child     *)
(* keeps its name and kind, and each of its entries stays as it is.        *)
C10_OnlyRegularFilesMoved ==
    [][\A n \in DOMAIN fs :
          fs[n].kind # "file" =>
              /\ n \in DOMAIN fs'
              /\ fs'[n].kind = fs[n].kind
              /\ \A c \in DOMAIN fs[n].children :
                    /\ c \in DOMAIN fs'[n].children
                    /\ fs'[n].children[c] = fs[n].children[c]]_vars

\* the run is over, it moved a file into a folder it created, and the
\* subdirectory Old and the link Images, both listed, are where they were
C10_Witness ==
    /\ pc["r1"] = "done"
    /\ \E i \in 1..Len(out["r1"]) : out["r1"][i].kind = "moved"
    /\ \E n \in DOMAIN fs0 : fs0[n].kind \in {"dir", "linkdir"} /\ fs[n] = fs0[n]
    /\ \E n \in DOMAIN fs \ DOMAIN fs0 : fs[n].kind = "dir"

-----------------------------------------------------------------------------
(* C2: a file name whose lower-cased form contains a keyword of            *)
(* KEYWORD_FOLDERS is sent to the folder of a keyword it contains, by the  *)
(* return inside the keyword loop (CATEGORY_MAP is not reached), whatever  *)
(* its extension.                                                          *)
C2_KeywordBeatsExtension ==
    (cret # NoResult /\ KeywordHits(lower(cfile)) # {}) =>
        /\ cret.via = "keyword"
        /\ \E i \in KeywordHits(lower(cfile)) :
               cret.ret = <<DOWNLOADS_DIR, KEYWORD_FOLDERS[i].folder>>

\* a name with a keyword and an extension of CATEGORY_MAP, sent to the keyword's folder
C2_Witness ==
    /\ cfile = "Invoice.pdf"
    /\ cret = [ret |-> <<DOWNLOADS_DIR, "Invoices">>, via |-> "keyword"]

(* C3: when two or more keywords occur in the lower-cased name, the folder *)
(* is that of the keyword declared earliest in KEYWORD_FOLDERS, wherever   *)
(* the keywords stand in the name.                                         *)
C3_FirstDeclaredKeywordWins ==
    (cret # NoResult /\ Cardinality(KeywordHits(lower(cfile))) >= 2) =>
        \E i \in KeywordHits(lower(cfile)) :
            /\ \A j \in KeywordHits(lower(cfile)) : i <= j
            /\ cret.ret = <<DOWNLOADS_DIR, KEYWORD_FOLDERS[i].folder>>

\* "course" stands before "invoice" in the name, and the file goes to Invoices
C3_Witness ==
    /\ cfile = "courseInvoice"
    /\ cret.ret = <<DOWNLOADS_DIR, "Invoices">>

(* C4: a name without keyword that reads stem.ext, ext being what follows  *)
(* its last dot and stem holding a character other than a dot, with ext    *)
(* lower-cased a key of CATEGORY_MAP, is sent to the folder CATEGORY_MAP   *)
(* gives for ext: only the last dot-separated component counts, in upper   *)
(* case as in lower case.                                                  *)
C4_ExtensionLookup ==
    cret # NoResult =>
        \A d \in 1..Len(cfile) :
            LET ext == lower(SubSeq(cfile, d + 1, Len(cfile)))
            IN  ( /\ KeywordHits(lower(cfile)) = {}
                  /\ Char(cfile, d) = "."
                  /\ \A j \in (d + 1)..Len(cfile) : Char(cfile, j) # "."
                  /\ \E j \in 1..(d - 1) : Char(cfile, j) # "."
                  /\ d < Len(cfile)
                  /\ ext \in DOMAIN CATEGORY_MAP )
                => cret = [ret |-> <<DOWNLOADS_DIR, CATEGORY_MAP[ext]>>,
                           via |-> "extension"]

\* two dots and an upper-case extension: only ".PDF" counts
C4_Witness ==
    /\ cfile = "notes.xyz.PDF"
    /\ cret.ret = <<DOWNLOADS_DIR, "PDFs">>

(* C5: a name without keyword and without an extension of CATEGORY_MAP (no *)
(* dot after its first character, a dot at its end, or an unknown          *)
(* extension) is sent to Misc; and every result is DOWNLOADS_DIR joined    *)
(* with one label that is a plain name.                                    *)
C5_FallbackAndTotal ==
    cret # NoResult =>
        /\ ( /\ KeywordHits(lower(cfile)) = {}
             /\ \A d \in 2..(Len(cfile) - 1) :
                    ( /\ Char(cfile, d) = "."
                      /\ \A j \in (d + 1)..Len(cfile) : Char(cfile, j) # "." )
                    => lower(SubSeq(cfile, d + 1, Len(cfile))) \notin DOMAIN CATEGORY_MAP )
           => cret.ret = <<DOWNLOADS_DIR, "Misc">>
        /\ Len(cret.ret) = 2
        /\ cret.ret[1] = DOWNLOADS_DIR
        /\ cret.ret[2] \notin {"", ".", ".."}
        /\ ~Contains("/", cret.ret[2])

\* a name without any dot falls through to Misc
C5_Witness ==
    /\ cfile = "notes"
    /\ cret = [ret |-> <<DOWNLOADS_DIR, "Misc">>, via |-> "fallback"]

-----------------------------------------------------------------------------
(* The AI script generator (ai_script_generator.py): main, the recorder    *)
(* with its background thread, and the prompt that offers to run the       *)
(* generated script.  KeyboardInterrupt is not modelled.                   *)

TempWav == "/tmp/tmp.wav"

\* str.strip() with no argument, on strings whose whitespace is blanks and tabs
Whitespace == {" ", "\t"}

RECURSIVE lstrip_ws(_)
lstrip_ws(s) ==
    IF Len(s) > 0 /\ Char(s, 1) \in Whitespace THEN lstrip_ws(SubSeq(s, 2, Len(s))) ELSE s

RECURSIVE rstrip_ws(_)
rstrip_ws(s) ==
    IF Len(s) > 0 /\ Char(s, Len(s)) \in Whitespace
    THEN rstrip_ws(SubSeq(s, 1, Len(s) - 1))
    ELSE s

strip_ws(s) == rstrip_ws(lstrip_ws(s))

\* choice = input(...).lower().strip()
choice_of(typed) == strip_ws(lower(typed))

\* (a variant of is_yes that runs on everything that is not a no or a quit)
is_yes_unless_declined(choice) == choice \notin {"n", "no", "q", "quit"}

\* choice in ['y', 'yes'], ['n', 'no'], ['q', 'quit']
is_yes(choice) == choice \in {"y", "yes"}

is_no(choice) == choice \in {"n", "no"}

is_quit(choice) == choice \in {"q", "quit"}

\* what the user may type at the prompt
TypedAnswers == {"y", "YES", " yes ", "n", "No", "\tno", "q", "Quit", "maybe", "", "yes!"}

\* what transcribe_audio returns: None (no key, or the API call raised), the
\* stripped text, which may be empty
TranscriptionResults == {"None", "", "resize all images in a folder"}

\* `not x` for None and strings
Falsy(x) == x \in {"None", ""}

\* main up to the recording: the imports and check_api_keys
MainStart ==
    /\ mpc = "start"
    /\ \E outcome \in {"ok", "ImportError", "keys_declined"} :
          mpc' = IF outcome = "ok" THEN "open" ELSE "returned"
    /\ UNCHANGED <<tpc, recording, frames, stream, wav, audio_file, user_request, caught,
                   answers, runs, cfile, cret, runVars>>

\* start_recording up to the start of the thread; p.open may raise, which
\* main's `except Exception` catches
StartRecording ==
    /\ mpc = "open"
    /\ \E outcome \in {"ok", "OSError"} :
          IF outcome = "ok"
          THEN /\ stream' = "open"
               /\ recording' = TRUE
               /\ frames' = 0
               /\ tpc' = "test"
               /\ mpc' = "input"
               /\ caught' = caught
          ELSE /\ mpc' = "returned"
               /\ caught' = outcome
               /\ UNCHANGED <<stream, recording, frames, tpc>>
    /\ UNCHANGED <<wav, audio_file, user_request, answers, runs, cfile, cret, runVars>>

\* input() in start_recording: the user presses ENTER and stop_recording is
\* called, or the input is at its end and EOFError goes up to main
PressEnter ==
    /\ mpc = "input"
    /\ \E outcome \in {"line", "EOFError"} :
          IF outcome = "line"
          THEN mpc' = "stop_flag" /\ caught' = caught
          ELSE mpc' = "returned" /\ caught' = outcome
    /\ UNCHANGED <<tpc, recording, frames, stream, wav, audio_file, user_request,
                   answers, runs, cfile, cret, runVars>>

\* _record_audio: `while self.recording`
ThreadTest ==
    /\ tpc = "test"
    /\ IF recording
       THEN frames < MaxFrames /\ tpc' = "read"
       ELSE tpc' = "finished"
    /\ UNCHANGED <<mpc, recording, frames, stream, wav, audio_file, user_request, caught,
                   answers, runs, cfile, cret, runVars>>

\* _record_audio: self.stream.read(...); it returns a chunk, or raises, which
\* ends the loop (a stream that is not open raises)
ThreadRead ==
    /\ tpc = "read"
    /\ \E outcome \in (IF stream = "open" THEN {"data", "OSError"} ELSE {"OSError"}) :
          tpc' = IF outcome = "data" THEN "append" ELSE "finished"
    /\ UNCHANGED <<mpc, recording, frames, stream, wav, audio_file, user_request, caught,
                   answers, runs, cfile, cret, runVars>>

\* _record_audio: self.frames.append(data)
ThreadAppend ==
    /\ tpc = "append"
    /\ frames' = frames + 1
    /\ tpc' = "test"
    /\ UNCHANGED <<mpc, recording, stream, wav, audio_file, user_request, caught,
                   answers, runs, cfile, cret, runVars>>

Thread == ThreadTest \/ ThreadRead \/ ThreadAppend

\* stop_recording: self.recording = False
StopFlag ==
    /\ mpc = "stop_flag"
    /\ recording' = FALSE
    /\ mpc' = "join"
    /\ UNCHANGED <<tpc, frames, stream, wav, audio_file, user_request, caught,
                   answers, runs, cfile, cret, runVars>>

\* (a variant of JoinThread that does not wait for the thread)
JoinThread_no_wait ==
    /\ mpc = "join"
    /\ mpc' = "stop_stream"
    /\ UNCHANGED <<tpc, recording, frames, stream, wav, audio_file, user_request, caught,
                   answers, runs, cfile, cret, runVars>>

\* stop_recording: self.record_thread.join() returns once the thread has ended
JoinThread ==
    /\ mpc = "join"
    /\ tpc = "finished"
    /\ mpc' = "stop_stream"
    /\ UNCHANGED <<tpc, recording, frames, stream, wav, audio_file, user_request, caught,
                   answers, runs, cfile, cret, runVars>>

\* stop_recording: self.stream.stop_stream()
StopStream ==
    /\ mpc = "stop_stream"
    /\ stream' = "stopped"
    /\ mpc' = "close"
    /\ UNCHANGED <<tpc, recording, frames, wav, audio_file, user_request, caught,
                   answers, runs, cfile, cret, runVars>>

\* stop_recording: self.stream.close(); self.p.terminate()
CloseStream ==
    /\ mpc = "close"
    /\ stream' = "closed"
    /\ mpc' = "save"
    /\ UNCHANGED <<tpc, recording, frames, wav, audio_file, user_request, caught,
                   answers, runs, cfile, cret, runVars>>

\* stop_recording: no frames, None; otherwise the temporary file is created
\* (delete=False) and the frames are written to it, and its name is returned;
\* when the writing raises, the file stays and None is returned
SaveWav ==
    /\ mpc = "save"
    /\ IF frames = 0
       THEN wav' = wav /\ audio_file' = "None"
       ELSE \E outcome \in {"ok", "fail_create", "fail_write"} :
                CASE outcome = "ok" ->
                        /\ wav' = [state |-> "written", chunks |-> frames]
                        /\ audio_file' = TempWav
                  [] outcome = "fail_create" ->
                        /\ wav' = wav
                        /\ audio_file' = "None"
                  [] outcome = "fail_write" ->
                        /\ wav' = [state |-> "partial", chunks |-> 0]
                        /\ audio_file' = "None"
    /\ mpc' = "recorded"
    /\ UNCHANGED <<tpc, recording, frames, stream, user_request, caught,
                   answers, runs, cfile, cret, runVars>>

StopRecording == StopFlag \/ JoinThread \/ StopStream \/ CloseStream \/ SaveWav

\* main: if not audio_file: return
CheckAudio ==
    /\ mpc = "recorded"
    /\ mpc' = IF Falsy(audio_file) THEN "returned" ELSE "transcribe"
    /\ UNCHANGED <<tpc, recording, frames, stream, wav, audio_file, user_request, caught,
                   answers, runs, cfile, cret, runVars>>

\* main: user_request = transcribe_audio(audio_file);
\* if not user_request: return
Transcribe ==
    /\ mpc = "transcribe"
    /\ \E text \in TranscriptionResults :
          /\ user_request' = text
          /\ mpc' = IF Falsy(text) THEN "returned" ELSE "unlink"
    /\ UNCHANGED <<tpc, recording, frames, stream, wav, audio_file, caught,
                   answers, runs, cfile, cret, runVars>>

\* main: os.unlink(audio_file)
Unlink ==
    /\ mpc = "unlink"
    /\ wav' = [wav EXCEPT !.state = "deleted"]
    /\ mpc' = "generate"
    /\ UNCHANGED <<tpc, recording, frames, stream, audio_file, user_request, caught,
                   answers, runs, cfile, cret, runVars>>

\* main: script_content = generate_script_with_claude(user_request);
\* if not script_content: return; save_and_display_script(script_content)
Generate ==
    /\ mpc = "generate"
    /\ \E outcome \in {"script", "None"} :
          mpc' = IF outcome = "script" THEN "ask" ELSE "returned"
    /\ UNCHANGED <<tpc, recording, frames, stream, wav, audio_file, user_request, caught,
                   answers, runs, cfile, cret, runVars>>

\* ask_user_to_run: one round of the loop.  On yes the script is started
\* (whatever subprocess.run raises is caught) and the loop is left, on no
\* the loop is left, on quit sys.exit(0) ends the process, and on anything
\* else the loop goes round; after the loop main prints and returns
Ask ==
    /\ mpc = "ask"
    /\ Len(answers) < MaxPrompts
    /\ \E typed \in TypedAnswers :
          LET choice == choice_of(typed)
          IN  /\ answers' = Append(answers, typed)
              /\ runs' = IF is_yes(choice) THEN runs + 1 ELSE runs
              /\ mpc' = CASE is_yes(choice) -> "returned"
                          [] is_no(choice) -> "returned"
                          [] is_quit(choice) -> "exited"
                          [] OTHER -> "ask"
    /\ UNCHANGED <<tpc, recording, frames, stream, wav, audio_file, user_request, caught,
                   cfile, cret, runVars>>

\* ask_user_to_run: input() at the end of the input raises EOFError, which
\* main's `except Exception` catches
AskEOF ==
    /\ mpc = "ask"
    /\ mpc' = "returned"
    /\ caught' = "EOFError"
    /\ UNCHANGED <<tpc, recording, frames, stream, wav, audio_file, user_request,
                   answers, runs, cfile, cret, runVars>>

GenInit ==
    /\ GenIdle
    /\ cfile = ""
    /\ cret = NoResult
    /\ srcState = "ok"
    /\ fs = EmptyDir
    /\ fs0 = EmptyDir
    /\ pc = [r \in Runs |-> "start"]
    /\ pending = [r \in Runs |-> {}]
    /\ file = [r \in Runs |-> ""]
    /\ target_folder = [r \in Runs |-> <<>>]
    /\ out = [r \in Runs |-> <<>>]
    /\ exc = [r \in Runs |-> NoException]
    /\ ret = [r \in Runs |-> "unset"]

GenNext ==
    \/ MainStart
    \/ StartRecording
    \/ PressEnter
    \/ Thread
    \/ StopRecording
    \/ CheckAudio
    \/ Transcribe
    \/ Unlink
    \/ Generate
    \/ Ask
    \/ AskEOF

\* the thread is scheduled and its reads return; the calls stop_recording
\* makes return.  Nothing makes the user type.
GenSpec == GenInit /\ [][GenNext]_vars /\ WF_vars(Thread) /\ WF_vars(StopRecording)

-----------------------------------------------------------------------------
(* Reporting, directory creation, the end-to-end scenario, single          *)
(* processing, two runs at once, and conservation of files.                *)

Outcomes == {"moved", "exists", "error"}

\* the positions of the outcome lines run r printed, for the file named n
OutcomeLines(r, n) ==
    {i \in 1..Len(out[r]) : out[r][i].kind \in Outcomes /\ out[r][i].name = n}

\* run r has taken the file named n from the listing and has left the loop
\* body for it by the end of the body or by `continue`
Completed(r, n) ==
    /\ pc[r] \in {"loop", "mkdir", "exists", "move", "done", "crashed"}
    /\ exc[r].at # "iterdir"
    /\ n \notin pending[r]
    /\ ~(file[r] = n /\ pc[r] \in {"mkdir", "exists", "move", "crashed"})

\* the regular files of the downloads directory at the start of the run
RegularFiles0 == {n \in DOMAIN fs0 : fs0[n].kind = "file"}

C12_MkdirIdempotent ==
    [][\A r \in Runs :
          (pc[r] = "mkdir" /\ pc'[r] # "mkdir") =>
              LET tf == get_target_folder(FilePath(r))
              IN  /\ is_dir(tf) =>
                        /\ fs' = fs
                        /\ pc'[r] = "exists"
                        /\ exc'[r] = NoException
                  /\ (~exists(tf) /\ pc'[r] = "exists") =>
                        fs' = Store(fs, Rel(tf), DirEntry("dir", EmptyDir))
                  /\ pc'[r] = "exists" => target_folder'[r] = tf]_vars

\* the second file of the PDFs folder has passed the creation step: the
\* folder was made for the first one, which is inside it
C12_Witness ==
    /\ pc["r1"] = "exists"
    /\ "PDFs" \notin DOMAIN fs0
    /\ target_folder["r1"] = Join(<<DOWNLOADS_DIR>>, "PDFs")
    /\ \E n \in RegularFiles0 :
          /\ n # file["r1"]
          /\ HasLine("r1", Line("moved", n, target_folder["r1"], ""))
          /\ exists(Join(target_folder["r1"], n))

\* the file system the scenario ends with
ScenarioResult ==
    [n \in {"invoice_march.pdf", "Invoices", "Images", "PDFs", "Misc"} |->
        CASE n = "invoice_march.pdf" -> FileEntry("new")
          [] n = "Invoices" -> DirPool["Invoices"]
          [] n = "Images" -> DirEntry("dir", [m \in {"photo.png"} |-> FileEntry("new")])
          [] n = "PDFs" -> DirEntry("dir", [m \in {"plan.pdf"} |-> FileEntry("new")])
          [] n = "Misc" -> DirEntry("dir", [m \in {"notes.xyz"} |-> FileEntry("new")])]

(* C13: on a directory with invoice_march.pdf, photo.png, notes.xyz and    *)
(* plan.pdf, where Invoices/invoice_march.pdf exists already, a run in     *)
(* which no directory creation and no move fails ends, whatever the order  *)
(* of the listing, with invoice_march.pdf still in the directory and one   *)
(* "File already exists" line for it, photo.png in Images, plan.pdf in     *)
(* PDFs, notes.xyz in Misc, and Invoices/invoice_march.pdf as it was.      *)
C13_Scenario ==
    (/\ pc["r1"] = "done"
     /\ \A i \in 1..Len(out["r1"]) : out["r1"][i].kind # "error") =>
        /\ fs = ScenarioResult
        /\ \A n \in ScenarioFiles :
              \A i \in OutcomeLines("r1", n) :
                  out["r1"][i] =
                      IF n = "invoice_march.pdf"
                      THEN Line("exists", n, TargetOf(n), "")
                      ELSE Line("moved", n, get_target_folder(Join(<<DOWNLOADS_DIR>>, n)), "")
        /\ \A n \in ScenarioFiles : Cardinality(OutcomeLines("r1", n)) = 1

\* the scenario has run to its end without a failure, the conflict last
C13_Witness ==
    /\ fs0 = ScenarioFileSystem
    /\ pc["r1"] = "done"
    /\ Len(out["r1"]) = 5
    /\ out["r1"][5].kind = "exists"
    /\ \A i \in 1..Len(out["r1"]) : out["r1"][i].kind # "error"

(* C14: the files are listed once, and each regular file of the listing is *)
(* processed exactly once: it never has more than one outcome line, only   *)
(* names of the listing have one, and when the run has ended each has      *)
(* exactly one of Moved, File already exists and Error moving.             *)
C14_EachFileProcessedOnce ==
    \A r \in Runs :
        /\ \A i \in 1..Len(out[r]) :
              out[r][i].kind \in Outcomes => out[r][i].name \in RegularFiles0
        /\ \A n \in RegularFiles0 : Cardinality(OutcomeLines(r, n)) <= 1
        /\ (pc[r] \in {"done", "crashed"} /\ exc[r].at # "iterdir") =>
              \A n \in RegularFiles0 : Cardinality(OutcomeLines(r, n)) = 1

\* run r is about to move its file although the target path is taken or the
\* file is gone
Raced(r) ==
    /\ pc[r] = "move"
    /\ exists(TargetPath(r)) \/ ~exists(FilePath(r))

(* C15: the existence check and the move are two steps, and another run    *)
(* can act between them.  A run comes to its move with the target path     *)
(* free and the file in place; from then until it moves, the target path   *)
(* gets taken or the file disappears only by a step of the other run, and  *)
(* with two runs on one directory this does happen.                        *)
C15_CheckThenMoveNotAtomic ==
    [][\A r \in Runs :
          (Raced(r)' /\ ~Raced(r)) =>
              /\ pc[r] = "move"
              /\ \E q \in Runs \ {r} : pc'[q] # pc[q]]_vars

\* r1 has passed the check and waits to move a file that r2 has moved to
\* the same target path meanwhile
C15_Witness ==
    /\ pc["r1"] = "move"
    /\ ~exists(FilePath("r1"))
    /\ exists(TargetPath("r1"))
    /\ HasLine("r2", Line("moved", file["r1"], target_folder["r1"], ""))

(* C16: in one run, with nothing else touching the directory, each regular *)
(* file of the start is at exactly one place, its own path or its target   *)
(* path, with its content, and what was inside a destination folder before *)
(* the run is still there unchanged.                                       *)
C16_FileConservation ==
    /\ \A n \in RegularFiles0 :
          LET target_path == TargetOf(n)
              before == Lookup(fs0, Rel(target_path))
              here == n \in DOMAIN fs /\ fs[n] = fs0[n]
              there == before.kind = "absent"
                       /\ Lookup(fs, Rel(target_path)) = fs0[n]
          IN  /\ here \/ there
              /\ ~(here /\ Lookup(fs, Rel(target_path)) # before)
              /\ n \in DOMAIN fs => fs[n] = fs0[n]
    /\ \A d \in DOMAIN fs0 :
          fs0[d].kind # "file" =>
              /\ d \in DOMAIN fs
              /\ fs[d].kind = fs0[d].kind
              /\ \A m \in DOMAIN fs0[d].children :
                    /\ m \in DOMAIN fs[d].children
                    /\ fs[d].children[m] = fs0[d].children[m]

-----------------------------------------------------------------------------
(* The script generator: the recording thread, the prompt, the temporary   *)
(* audio file.                                                             *)

(* C17: once stop_recording has stopped or closed the stream, and when it  *)
(* writes the frames to the WAV file, the thread running _record_audio has *)
(* ended: from then on it is at no read and no append and frames does not  *)
(* change, and the WAV file holds all the frames.  And, the reads          *)
(* returning, a call of stop_recording returns.                            *)
C17_ThreadQuietAfterStop ==
    /\ [](((stream \in {"stopped", "closed"}) \/ mpc = "save" \/ wav.state # "none") =>
              /\ tpc = "finished"
              /\ ~recording
              /\ wav.state = "written" => wav.chunks = frames)
    /\ [][(stream \in {"stopped", "closed"}) => (frames' = frames /\ tpc' = tpc)]_vars
    /\ (mpc = "stop_flag") ~> (mpc = "recorded")

\* the stream is closed and the WAV file written with both chunks: the
\* thread ended before
C17_Witness ==
    /\ stream = "closed"
    /\ tpc = "finished"
    /\ frames = MaxFrames
    /\ wav = [state |-> "written", chunks |-> frames]
    /\ audio_file = TempWav

(* C18: ask_user_to_run starts the generated script at most once, and only *)
(* when the answer (lower-cased, without the white space around it) is y   *)
(* or yes; on n or no it returns and on q or quit the process exits, in    *)
(* both cases with nothing run; every answer before the last was none of   *)
(* the six, and led to another prompt with nothing run.                    *)
C18_RunsOnlyOnYes ==
    LET k == Len(answers)
        norm(i) == strip_ws(lower(answers[i]))
        Known == {"y", "yes", "n", "no", "q", "quit"}
    IN  /\ runs \in {0, 1}
        /\ \A i \in 1..(k - 1) : norm(i) \notin Known
        /\ mpc = "ask" => /\ runs = 0
                          /\ \A i \in 1..k : norm(i) \notin Known
        /\ runs = 1 => k >= 1 /\ norm(k) \in {"y", "yes"}
        /\ mpc = "exited" => k >= 1 /\ norm(k) \in {"q", "quit"}
        /\ k >= 1 =>
              /\ norm(k) \in {"y", "yes"} => runs = 1 /\ mpc = "returned"
              /\ norm(k) \in {"n", "no"} => runs = 0 /\ mpc = "returned"
              /\ norm(k) \in {"q", "quit"} => runs = 0 /\ mpc = "exited"

\* the script was run on the third answer, after two that were none of the six
C18_Witness ==
    /\ Len(answers) = 3
    /\ answers[1] = "maybe"
    /\ answers[2] = "yes!"
    /\ answers[3] = " yes "
    /\ runs = 1
    /\ mpc = "returned"

(* C19: when main has ended and the recording had returned the path of a   *)
(* temporary audio file, that file has been deleted.                       *)
C19_TempFileDeleted ==
    (mpc \in {"returned", "exited"} /\ audio_file = TempWav) => wav.state = "deleted"

====
